---- MODULE Spec2Model ----
(***************************************************************************)
(* State-machine model of commit.py: the interactive session driver        *)
(* (main), the four token-file mutators, the changelog appender and the    *)
(* git wrapper, with git's working tree, index and history reduced to the  *)
(* iterations whose changes each of them holds.                            *)
(***************************************************************************)
EXTENDS Integers, Sequences, FiniteSets, TLC

VARIABLES
    pc,             \* position of main: input, pick, retry, mutate, log, add, commit, push, done, aborted
    line,           \* the last line read by input()
    num,            \* main's num
    i,              \* loop index of "for i in range(1, num + 1)"
    category,       \* main's category
    message,        \* main's message
    attempts,       \* main's attempts
    collisions,     \* consecutive draws of this iteration that hit a used message
    used_messages,  \* main's used_messages
    modifier,       \* main's modifier (the mutator dispatched last)
    catalog,        \* COMMIT_MESSAGES as loaded by this run (a bounded part of it)
    files,          \* content of design_tokens/<name>.json
    before,         \* content of the token files before the latest mutator call
    fault,          \* the uncaught exception that ended the run, or "none"
    changelog,      \* lines of CHANGELOG.md
    initLog,        \* lines of CHANGELOG.md when the run started
    logged,         \* the messages passed to _append_log, in call order
    unstaged,       \* iterations whose changes are in the working tree only
    staged,         \* iterations whose changes are in the index
    commits,        \* git history created by this run
    muts,           \* number of completed mutator calls
    stageCalls,     \* number of "git add -A" calls
    commitCalls,    \* number of "git commit" calls
    pushCalls,      \* number of "git push" calls
    result,         \* return code of the push call (main's result.returncode)
    report          \* the final report printed by main

vars == <<pc, line, num, i, category, message, attempts, collisions, used_messages,
          modifier, catalog, files, before, fault, changelog, initLog, logged,
          unstaged, staged, commits, muts, stageCalls, commitCalls, pushCalls,
          result, report>>

(***************************************************************************)
(* Bounds of the model.                                                    *)
(***************************************************************************)
\* largest commit count the operator enters
MaxNum == 2
\* largest number of messages in the part of the catalog one run draws from
MaxCatalog == 2

\* largest number of mutator calls made outside a session
MaxCalls == 2

(***************************************************************************)
(* Program constants.                                                      *)
(***************************************************************************)
\* "attempts < 20"
MaxAttempts == 20
\* random.randint(0, 0xFFFFFF)
MaxRGB == 16777215

Range(s) == {s[k] : k \in DOMAIN s}

Min(a, b) == IF a < b THEN a ELSE b

\* random.choice(list), sampled at the first and the last entry of the list
Choices(list) == {list[1], list[Len(list)]}

(***************************************************************************)
(* Message catalog.                                                        *)
(***************************************************************************)
COMMIT_MESSAGES ==
    [color |-> <<"color change", "primary color update",
                 "secondary palette refinement", "accent color adjustment",
                 "color contrast fix", "dark mode color tweak",
                 "color palette expansion", "brand color alignment",
                 "surface color update", "semantic color token fix">>,
     brand |-> <<"brand token change", "brand font update",
                 "brand spacing alignment", "brand asset refresh",
                 "brand guideline sync">>,
     typography |-> <<"typography scale update", "font weight adjustment",
                      "line height refinement", "heading hierarchy fix",
                      "body text improvement", "font family swap",
                      "letter spacing tweak">>,
     spacing |-> <<"spacing token update", "padding consistency fix",
                   "margin alignment", "grid gap adjustment",
                   "layout spacing refinement", "section spacing update">>,
     components |-> <<"button style update", "input field refinement",
                      "card component update", "modal design update",
                      "tooltip design tweak", "navigation styling fix",
                      "dropdown menu update", "checkbox style refresh",
                      "tab component refinement", "badge design update">>,
     ui_fixes |-> <<"UI fixes", "hover state fix", "focus ring update",
                    "active state refinement", "disabled state styling",
                    "responsive layout tweak", "border radius update",
                    "shadow refinement", "z-index adjustment", "overflow fix",
                    "alignment correction", "visual regression fix">>,
     motion |-> <<"animation duration update", "transition easing change",
                  "micro-interaction refinement", "loading animation tweak",
                  "scroll animation fix">>,
     accessibility |-> <<"accessibility contrast fix", "focus indicator update",
                         "screen reader label add", "aria attribute update",
                         "keyboard navigation fix">>]

\* the keys of COMMIT_MESSAGES in the order the source lists them
CategoryOrder ==
    <<"color", "brand", "typography", "spacing", "components", "ui_fixes",
      "motion", "accessibility">>

\* the part of the catalog made of len consecutive categories from the a-th,
\* each with its k leading messages
Window(a, len, k) ==
    [c \in {CategoryOrder[j] : j \in a..(a + len - 1)} |->
        SubSeq(COMMIT_MESSAGES[c], 1, Min(k, Len(COMMIT_MESSAGES[c])))]

\* the catalogs a run of the model may load: every window of at most
\* MaxCatalog messages
SubCatalogs ==
    {Window(w[1], w[2], w[3]) :
        w \in {v \in (1..Len(CategoryOrder)) \X (1..MaxCatalog) \X (1..MaxCatalog) :
                  /\ v[1] + v[2] - 1 <= Len(CategoryOrder)
                  /\ v[2] * v[3] <= MaxCatalog}}

\* the messages of a catalog, flattened
ALL_MESSAGES(cat) == UNION {Range(cat[c]) : c \in DOMAIN cat}

\* every (category, message) pair _pick_commit can return
PickCommit(cat) ==
    UNION {{[category |-> c, message |-> cat[c][k]] : k \in 1..Len(cat[c])} :
              c \in DOMAIN cat}

(***************************************************************************)
(* JSON documents and file contents.  A scalar is a string or a number, a  *)
(* mapping is a function from keys to values.  A file is a JSON value, or  *)
(* missing, or text that is not JSON.                                      *)
(***************************************************************************)
Str(s) == [t |-> "str", s |-> s]
Num(n) == [t |-> "num", n |-> n]
Map(f) == [t |-> "map", kv |-> f]
MISSING == [t |-> "missing"]
NOT_JSON == [t |-> "garbage"]

IsMap(v) == v.t = "map"
IsScalar(v) == v.t \in {"str", "num"}
Keys(v) == DOMAIN v.kv

\* data[k] = x
Put(v, k, x) == Map([j \in (Keys(v) \cup {k}) |-> IF j = k THEN x ELSE v.kv[j]])

\* a file holds a JSON document: what json.load accepts and json.dump writes
ValidJson(v) ==
    \/ IsScalar(v)
    \/ /\ IsMap(v)
       /\ \A k \in Keys(v) :
             \/ IsScalar(v.kv[k])
             \/ /\ IsMap(v.kv[k])
                /\ \A j \in Keys(v.kv[k]) : IsScalar(v.kv[k].kv[j])

\* the paths to the leaves of a document of depth at most two
Leaves(v) ==
    IF ~IsMap(v) THEN {<<>>}
    ELSE UNION {IF IsMap(v.kv[k])
                    THEN {<<k, j>> : j \in Keys(v.kv[k])}
                    ELSE {<<k>>} : k \in Keys(v)}

LeafAt(v, p) ==
    IF Len(p) = 0 THEN v
    ELSE IF Len(p) = 1 THEN v.kv[p[1]]
    ELSE v.kv[p[1]].kv[p[2]]

\* leaves of both documents whose values differ
ChangedLeaves(old, new) ==
    {p \in Leaves(old) \cap Leaves(new) : LeafAt(old, p) # LeafAt(new, p)}

HexDigits ==
    <<"0", "1", "2", "3", "4", "5", "6", "7", "8", "9", "a", "b", "c", "d", "e", "f">>

\* f"#{n:06x}"
Hex6(n) ==
    "#" \o HexDigits[((n \div 1048576) % 16) + 1]
        \o HexDigits[((n \div 65536) % 16) + 1]
        \o HexDigits[((n \div 4096) % 16) + 1]
        \o HexDigits[((n \div 256) % 16) + 1]
        \o HexDigits[((n \div 16) % 16) + 1]
        \o HexDigits[(n % 16) + 1]

\* f"{n}px"
Px(n) == ToString(n) \o "px"

\* outcomes of a mutator call
Ok(doc) == [ok |-> TRUE, doc |-> doc]
Fault(err) == [ok |-> FALSE, err |-> err]

\* the outcome of open(path) and json.load(f): the exception raised, or "none"
LoadError(c) ==
    IF c.t = "missing" THEN "FileNotFoundError"
    ELSE IF c.t = "garbage" THEN "JSONDecodeError"
    ELSE "none"

\* the integers lo..hi as a list
Interval(lo, hi) == [k \in 1..(hi - lo + 1) |-> lo + k - 1]

(***************************************************************************)
(* Token mutators.  Each maps the content of its file to the set of        *)
(* outcomes its random choices allow: the rewritten document, or the       *)
(* exception raised before the file is rewritten.                          *)
(***************************************************************************)
\* f"#{random.randint(0, 0xFFFFFF):06x}", sampled at the ends of the range
Shades == {Str(Hex6(n)) : n \in {0, MaxRGB}}

ModifyColors(c) ==
    IF LoadError(c) # "none" THEN {Fault(LoadError(c))}
    ELSE IF ~IsMap(c) THEN {Fault("AttributeError")}
    ELSE IF Keys(c) = {} THEN {Fault("IndexError")}
    ELSE UNION {
        IF IsMap(c.kv[key])
            THEN IF Keys(c.kv[key]) = {} THEN {Fault("IndexError")}
                 ELSE {Ok(Put(c, key, Put(c.kv[key], sub, shade))) :
                          sub \in Keys(c.kv[key]), shade \in Shades}
            ELSE {Ok(Put(c, key, shade)) : shade \in Shades}
        : key \in Keys(c)}

weights == <<300, 400, 500, 600, 700>>
sizes ==
    <<"0.75rem", "0.875rem", "1rem", "1.125rem", "1.25rem", "1.5rem", "2rem",
      "2.5rem", "3rem">>
heights == <<"1.2", "1.4", "1.5", "1.6", "1.75">>

\* the values random.choice can assign to a typography property
TypographyValues(prop) ==
    IF prop = "fontSize" THEN {Str(v) : v \in Choices(sizes)}
    ELSE IF prop = "fontWeight" THEN {Num(v) : v \in Choices(weights)}
    ELSE {Str(v) : v \in Choices(heights)}

ModifyTypography(c) ==
    IF LoadError(c) # "none" THEN {Fault(LoadError(c))}
    ELSE IF ~IsMap(c) THEN {Fault("AttributeError")}
    ELSE IF Keys(c) = {} THEN {Fault("IndexError")}
    ELSE UNION {
        IF ~IsMap(c.kv[key]) THEN {Fault("TypeError")}
        ELSE {Ok(Put(c, key, Put(c.kv[key], prop, v))) : v \in TypographyValues(prop)}
        : key \in Keys(c), prop \in {"fontSize", "fontWeight", "lineHeight"}}

bases == <<2, 4, 6, 8, 10, 12, 16, 20, 24, 32, 40, 48, 64>>

ModifySpacing(c) ==
    IF LoadError(c) # "none" THEN {Fault(LoadError(c))}
    ELSE IF ~IsMap(c) THEN {Fault("AttributeError")}
    ELSE IF Keys(c) = {} THEN {Fault("IndexError")}
    ELSE {Ok(Put(c, key, Str(Px(base)))) : key \in Keys(c), base \in Choices(bases)}

\* property names of the model for which "radius" in prop.lower() holds, and
\* likewise for "shadow", and for "padding" or "gap"
RadiusProps == {"borderRadius", "radius"}
ShadowProps == {"boxShadow", "shadow"}
PaddingProps == {"padding", "paddingX", "gap"}

radii == <<2, 4, 6, 8, 12, 16, 24, 9999>>
paddings == <<4, 8, 12, 16, 20, 24>>
generics == <<1, 2, 4, 8, 12, 16>>
\* round(random.uniform(0.04, 0.2), 2), as Python prints it
alphas ==
    <<"0.04", "0.05", "0.06", "0.07", "0.08", "0.09", "0.1", "0.11", "0.12",
      "0.13", "0.14", "0.15", "0.16", "0.17", "0.18", "0.19", "0.2">>

\* f"{x}px {y}px {blur}px rgba(0,0,0,{alpha})"
ShadowValues ==
    {Str(ToString(x) \o "px " \o ToString(y) \o "px " \o ToString(blur)
            \o "px rgba(0,0,0," \o alpha \o ")") :
        x \in Choices(Interval(0, 4)), y \in Choices(Interval(1, 8)),
        blur \in Choices(Interval(4, 24)), alpha \in Choices(alphas)}

\* the values _modify_components can assign to a property, by its name
ComponentValues(prop) ==
    IF prop \in RadiusProps THEN {Str(Px(v)) : v \in Choices(radii)}
    ELSE IF prop \in ShadowProps THEN ShadowValues
    ELSE IF prop \in PaddingProps THEN {Str(Px(v)) : v \in Choices(paddings)}
    ELSE {Str(Px(v)) : v \in Choices(generics)}

ModifyComponents(c) ==
    IF LoadError(c) # "none" THEN {Fault(LoadError(c))}
    ELSE IF ~IsMap(c) THEN {Fault("AttributeError")}
    ELSE IF Keys(c) = {} THEN {Fault("IndexError")}
    ELSE UNION {
        IF ~IsMap(c.kv[component]) THEN {Fault("AttributeError")}
        ELSE IF Keys(c.kv[component]) = {} THEN {Fault("IndexError")}
        ELSE UNION {{Ok(Put(c, component, Put(c.kv[component], prop, v))) :
                        v \in ComponentValues(prop)} :
                       prop \in Keys(c.kv[component])}
        : component \in Keys(c)}

\* the four mutators and the file each rewrites
Mutators == {"_modify_colors", "_modify_typography", "_modify_spacing", "_modify_components"}

FileOf(m) ==
    IF m = "_modify_colors" THEN "colors"
    ELSE IF m = "_modify_typography" THEN "typography"
    ELSE IF m = "_modify_spacing" THEN "spacing"
    ELSE "components"

FileNames == {FileOf(m) : m \in Mutators}

\* the call modifier(tokens_dir)
Run(m, c) ==
    IF m = "_modify_colors" THEN ModifyColors(c)
    ELSE IF m = "_modify_typography" THEN ModifyTypography(c)
    ELSE IF m = "_modify_spacing" THEN ModifySpacing(c)
    ELSE ModifyComponents(c)

MODIFIERS ==
    [color |-> "_modify_colors",
     brand |-> "_modify_colors",
     typography |-> "_modify_typography",
     spacing |-> "_modify_spacing",
     components |-> "_modify_components",
     ui_fixes |-> "_modify_components",
     motion |-> "_modify_components",
     accessibility |-> "_modify_components"]

\* MODIFIERS.get(category, _modify_components)
Dispatch(cat) ==
    IF cat \in DOMAIN MODIFIERS THEN MODIFIERS[cat] ELSE "_modify_components"

(***************************************************************************)
(* Changelog appender and git wrapper.                                     *)
(***************************************************************************)
\* datetime.now().strftime("%Y-%m-%d %H:%M"): a run is taken to fall within
\* one minute
Clock == {"2024-05-01 09:00"}

\* the line _append_log writes: dash, timestamp, dash, message (the quotes
\* around the timestamp left out, the long dash written as "--")
LogLine(ts, msg) == "- " \o ts \o " -- " \o msg

\* variant: the file opened with "w", which truncates it
AppendLogTruncating(log, l) == <<l>>

\* open(log_path, "a") and write: an absent file is an empty one
AppendLog(log, l) == Append(log, l)

\* result.returncode of subprocess.run
ReturnCodes == {0, 1}

\* variant: subprocess.run(..., check=True), a failed call raises
AfterGitChecked(rc, next) == IF rc # 0 THEN "aborted" ELSE next

\* where main goes on after _git returned rc: _git returns the result and
\* raises nothing
AfterGit(rc, next) == next

\* the report main prints after the push
Report(rc) == IF rc = 0 THEN "success" ELSE "failure"

(***************************************************************************)
(* Session driver.                                                         *)
(***************************************************************************)
\* the lines the operator may type
InputLines == {"abc", "", "2.5"} \cup {ToString(n) : n \in (0 - MaxNum)..MaxNum}

\* int(s): the integer, or ValueError
ParseInt(s) ==
    IF \E n \in (0 - MaxNum)..MaxNum : ToString(n) = s
        THEN [ok |-> TRUE, val |-> CHOOSE n \in (0 - MaxNum)..MaxNum : ToString(n) = s]
        ELSE [ok |-> FALSE, err |-> "ValueError"]

\* variant: range(1, n)
InRangeExclusive(idx, n) == idx < n

\* idx in range(1, n + 1), for idx >= 1
InRange(idx, n) == idx <= n

\* variant: the comparison of attempts turned around, so no draw is repeated
RetryCondFlipped(msg, used, att) == msg \in used /\ att > MaxAttempts

\* variant: no limit on the number of draws
RetryCondUnbounded(msg, used, att) == msg \in used

\* condition of "while message in used_messages and attempts < 20"
RetryCond(msg, used, att) == msg \in used /\ att < MaxAttempts

\* variant: "_, message = _pick_commit()", the category of the first draw kept
RedrawnMessageOnly(p, cat) == [category |-> cat, message |-> p.message]

\* "category, message = _pick_commit()" in the while loop: both are replaced
\* by the draw p
Redrawn(p, cat) == [category |-> p.category, message |-> p.message]

\* variant: "if num < 0"
TooSmallNegative(n) == n < 0

\* "if num < 1"
TooSmall(n) == n < 1

\* variant: the exception caught and the iteration carried on
Swallowed(err) == "log"

\* an exception no handler catches ends main
Uncaught(err) == "aborted"

\* well-formed token files
GoodFiles ==
    [f \in FileNames |->
        IF f = "colors"
            THEN Map([k \in {"primary", "background"} |->
                        IF k = "primary"
                            THEN Map([j \in {"500"} |-> Str(Hex6(0))])
                            ELSE Str(Hex6(MaxRGB))])
        ELSE IF f = "typography"
            THEN Map([k \in {"body"} |->
                        Map([j \in {"fontSize", "fontWeight", "lineHeight"} |->
                                IF j = "fontSize" THEN Str(sizes[1])
                                ELSE IF j = "fontWeight" THEN Num(weights[1])
                                ELSE Str(heights[1])])])
        ELSE IF f = "spacing"
            THEN Map([k \in {"sm", "md"} |->
                        IF k = "sm" THEN Str(Px(bases[1])) ELSE Str(Px(bases[Len(bases)]))])
        ELSE Map([k \in {"button"} |->
                    Map([j \in {"borderRadius", "padding"} |->
                            IF j = "borderRadius" THEN Str(Px(radii[1]))
                            ELSE Str(Px(paddings[1]))])])]

\* CHANGELOG.md before the run: absent, or holding earlier lines
PriorLogs == {<<>>, <<"# Changelog">>}

InitSession ==
    /\ line = "<none>"
    /\ num = 0
    /\ i = 0
    /\ category = ""
    /\ message = ""
    /\ attempts = 0
    /\ collisions = 0
    /\ used_messages = {}
    /\ modifier = ""
    /\ fault = "none"
    /\ changelog = initLog
    /\ logged = <<>>
    /\ unstaged = {}
    /\ staged = {}
    /\ commits = <<>>
    /\ muts = 0
    /\ stageCalls = 0
    /\ commitCalls = 0
    /\ pushCalls = 0
    /\ result = -1
    /\ report = "none"

Init ==
    /\ pc = "input"
    /\ catalog \in SubCatalogs
    /\ initLog \in PriorLogs
    /\ files = GoodFiles
    /\ before = files
    /\ InitSession

\* num = int(input(...)), "if num < 1: continue", "except ValueError"
Input ==
    /\ pc = "input"
    /\ \E s \in InputLines :
        /\ line' = s
        /\ IF ~ParseInt(s).ok
              THEN UNCHANGED <<num, i, pc>>
              ELSE /\ num' = ParseInt(s).val
                   /\ IF TooSmall(num')
                         THEN UNCHANGED <<i, pc>>
                         ELSE IF InRange(1, num')
                                 THEN i' = 1 /\ pc' = "pick"
                                 ELSE i' = i /\ pc' = "push"
    /\ UNCHANGED <<category, message, attempts, collisions, used_messages, modifier, catalog,
                   files, before, fault, changelog, initLog, logged, unstaged,
                   staged, commits, muts, stageCalls, commitCalls, pushCalls,
                   result, report>>

\* category, message = _pick_commit(); attempts = 0
Pick ==
    /\ pc = "pick"
    /\ \E p \in PickCommit(catalog) :
        /\ category' = p.category
        /\ message' = p.message
        /\ collisions' = IF p.message \in used_messages THEN 1 ELSE 0
    /\ attempts' = 0
    /\ pc' = "retry"
    /\ UNCHANGED <<line, num, i, used_messages, modifier, catalog, files, before,
                   fault, changelog, initLog, logged, unstaged, staged, commits,
                   muts, stageCalls, commitCalls, pushCalls, result, report>>

\* one test of the while condition: a further draw, or the exit of the loop
\* with used_messages.add(message) and the dispatch of the modifier.
\* attempts is not read after the loop; the model clears it on exit.
Retry ==
    /\ pc = "retry"
    /\ IF RetryCond(message, used_messages, attempts)
          THEN /\ \E p \in PickCommit(catalog) :
                    /\ category' = Redrawn(p, category).category
                    /\ message' = Redrawn(p, category).message
                    /\ collisions' = IF p.message \in used_messages
                                         THEN collisions + 1 ELSE 0
               /\ attempts' = attempts + 1
               /\ UNCHANGED <<used_messages, modifier, pc>>
          ELSE /\ used_messages' = used_messages \cup {message}
               /\ modifier' = Dispatch(category)
               /\ attempts' = 0
               /\ pc' = "mutate"
               /\ UNCHANGED <<category, message, collisions>>
    /\ UNCHANGED <<line, num, i, catalog, files, before, fault, changelog, initLog,
                   logged, unstaged, staged, commits, muts, stageCalls,
                   commitCalls, pushCalls, result, report>>

\* modifier(tokens_dir)
Mutate ==
    /\ pc = "mutate"
    /\ \E out \in Run(modifier, files[FileOf(modifier)]) :
        IF out.ok
            THEN /\ files' = [files EXCEPT ![FileOf(modifier)] = out.doc]
                 /\ unstaged' = IF out.doc # files[FileOf(modifier)]
                                    THEN unstaged \cup {i} ELSE unstaged
                 /\ muts' = muts + 1
                 /\ pc' = "log"
                 /\ UNCHANGED fault
            ELSE /\ fault' = out.err
                 /\ pc' = Uncaught(out.err)
                 /\ UNCHANGED <<files, unstaged, muts>>
    /\ UNCHANGED <<line, num, i, category, message, attempts, collisions, used_messages,
                   modifier, catalog, before, changelog, initLog, logged, staged,
                   commits, stageCalls, commitCalls, pushCalls, result, report>>

\* _append_log(tokens_dir, message)
Log ==
    /\ pc = "log"
    /\ \E ts \in Clock : changelog' = AppendLog(changelog, LogLine(ts, message))
    /\ logged' = Append(logged, message)
    /\ unstaged' = unstaged \cup {i}
    /\ pc' = "add"
    /\ UNCHANGED <<line, num, i, category, message, attempts, collisions, used_messages,
                   modifier, catalog, files, before, fault, initLog, staged,
                   commits, muts, stageCalls, commitCalls, pushCalls, result,
                   report>>

\* _git("add", "-A")
GitAdd ==
    /\ pc = "add"
    /\ \E rc \in ReturnCodes :
        /\ IF rc = 0
              THEN staged' = staged \cup unstaged /\ unstaged' = {}
              ELSE UNCHANGED <<staged, unstaged>>
        /\ pc' = AfterGit(rc, "commit")
    /\ stageCalls' = stageCalls + 1
    /\ UNCHANGED <<line, num, i, category, message, attempts, collisions, used_messages,
                   modifier, catalog, files, before, fault, changelog, initLog,
                   logged, commits, muts, commitCalls, pushCalls, result, report>>

\* _git("commit", "-m", message), the progress line and the next turn of the
\* for loop; git commits only a non-empty index
GitCommit ==
    /\ pc = "commit"
    /\ \E rc \in ReturnCodes :
        /\ rc = 0 => staged # {}
        /\ IF rc = 0
              THEN /\ commits' = Append(commits, [message |-> message, iters |-> staged])
                   /\ staged' = {}
              ELSE UNCHANGED <<commits, staged>>
        /\ IF AfterGit(rc, "next") # "next"
              THEN pc' = AfterGit(rc, "next") /\ i' = i
              ELSE IF InRange(i + 1, num)
                      THEN i' = i + 1 /\ pc' = "pick"
                      ELSE i' = i /\ pc' = "push"
    /\ commitCalls' = commitCalls + 1
    /\ UNCHANGED <<line, num, category, message, attempts, collisions, used_messages,
                   modifier, catalog, files, before, fault, changelog, initLog,
                   logged, unstaged, muts, stageCalls, pushCalls, result, report>>

\* result = _git("push") and the final report
GitPush ==
    /\ pc = "push"
    /\ \E rc \in ReturnCodes :
        /\ result' = rc
        /\ report' = Report(rc)
        /\ pc' = AfterGit(rc, "done")
    /\ pushCalls' = pushCalls + 1
    /\ UNCHANGED <<line, num, i, category, message, attempts, collisions, used_messages,
                   modifier, catalog, files, before, fault, changelog, initLog,
                   logged, unstaged, staged, commits, muts, stageCalls,
                   commitCalls>>

Next == Input \/ Pick \/ Retry \/ Mutate \/ Log \/ GitAdd \/ GitCommit \/ GitPush

Spec == Init /\ [][Next]_vars

InitLive == Init /\ initLog = <<>>

\* once input() returned a valid count nothing waits for the operator: every
\* later step of main runs as soon as the one before it returned.  The runs
\* start without a changelog, whose content no step reads.
SpecLive ==
    /\ InitLive
    /\ [][Next]_vars
    /\ WF_vars(Pick \/ Retry \/ Mutate \/ Log \/ GitAdd \/ GitCommit \/ GitPush)

(***************************************************************************)
(* Sessions over a faulty token file.                                      *)
(***************************************************************************)
\* contents a mutator cannot process: no file, no JSON, a document that is
\* no mapping, a mapping without keys, and entries of the wrong shape
BadContents(f) ==
    {MISSING, NOT_JSON, Str("tokens"), Map(<<>>)}
        \cup (IF f \in {"typography", "components"}
                THEN {Map([k \in {"body"} |-> Str(sizes[1])])}
                ELSE {})
        \cup (IF f \in {"colors", "components"}
                THEN {Map([k \in {"primary"} |-> Map(<<>>)])}
                ELSE {})

\* one file a category of this run's catalog dispatches to is faulty
InitFault ==
    /\ pc = "input"
    /\ catalog \in SubCatalogs
    /\ initLog \in PriorLogs
    /\ InitSession
    /\ \E c \in DOMAIN catalog :
        \E bad \in BadContents(FileOf(Dispatch(c))) :
            files = [GoodFiles EXCEPT ![FileOf(Dispatch(c))] = bad]
    /\ before = files

SpecFault == InitFault /\ [][Next]_vars

(***************************************************************************)
(* The mutators called on their own, each call an independent draw.        *)
(***************************************************************************)
\* further documents of the shapes the mutators are written for
MoreContents(f) ==
    IF f = "colors"
        THEN {Map([k \in {"accent"} |-> Str(Hex6(255))])}
    ELSE IF f = "typography"
        THEN {Map([k \in {"heading"} |-> Map([j \in {"fontSize"} |-> Str(sizes[3])])])}
    ELSE IF f = "spacing"
        THEN {Map([k \in {"sm", "md"} |-> IF k = "sm" THEN Str(Px(4)) ELSE Str(Px(8))])}
    ELSE {Map([k \in {"card"} |->
                 Map([j \in {"boxShadow", "borderWidth", "gap"} |->
                         IF j = "boxShadow" THEN Str("none")
                         ELSE IF j = "borderWidth" THEN Str(Px(generics[1]))
                         ELSE Str(Px(paddings[2]))])])}

InitMut ==
    /\ pc = "call"
    /\ catalog = COMMIT_MESSAGES
    /\ initLog = <<>>
    /\ InitSession
    /\ \E f \in FileNames :
        \E c \in {GoodFiles[f]} \cup MoreContents(f) \cup BadContents(f) :
            files = [GoodFiles EXCEPT ![f] = c]
    /\ before = files

\* one call m(tokens_dir) from outside main
Call(m) ==
    /\ pc = "call"
    /\ muts < MaxCalls
    /\ muts' = muts + 1
    /\ modifier' = m
    /\ before' = files
    /\ \E out \in Run(m, files[FileOf(m)]) :
        IF out.ok
            THEN /\ files' = [files EXCEPT ![FileOf(m)] = out.doc]
                 /\ fault' = "none"
            ELSE /\ fault' = out.err
                 /\ UNCHANGED files
    /\ UNCHANGED <<pc, line, num, i, category, message, attempts, collisions,
                   used_messages, catalog, changelog, initLog, logged, unstaged,
                   staged, commits, stageCalls, commitCalls, pushCalls,
                   result, report>>

CallColors == pc = "call" /\ Call("_modify_colors")
CallTypography == pc = "call" /\ Call("_modify_typography")
CallSpacing == pc = "call" /\ Call("_modify_spacing")
CallComponents == pc = "call" /\ Call("_modify_components")

NextMut == CallColors \/ CallTypography \/ CallSpacing \/ CallComponents

SpecMut == InitMut /\ [][NextMut]_vars

(***************************************************************************)
(* Properties.                                                             *)
(***************************************************************************)
PostSelection == {"mutate", "log", "add", "commit"}

\* how often msg was passed to _append_log
TimesLogged(msg) == Cardinality({k \in DOMAIN logged : logged[k] = msg})

\* C1: a session over well-formed token files runs exactly num cycles, each
\* in the order mutation, changelog line, stage, commit, and then one push:
\* no push before the last cycle has finished, no cycle after the push.
C1_CyclesThenPush ==
    /\ commitCalls <= stageCalls
    /\ stageCalls <= Len(logged)
    /\ Len(logged) <= muts
    /\ muts <= commitCalls + 1
    /\ pushCalls <= 1
    /\ pc = "push" => commitCalls = num
    /\ pushCalls = 1 => pc = "done"
    /\ pc = "done" =>
        /\ muts = num
        /\ Len(logged) = num
        /\ stageCalls = num
        /\ commitCalls = num
        /\ pushCalls = 1

C1_Witness == pc = "done" /\ num > 1 /\ commitCalls = num /\ pushCalls = 1

\* C2: when the count is at most the number of distinct catalog messages, a
\* message is logged a second time only in an iteration whose draws hit a
\* used message at least 20 times in a row.
C2_DuplicateAvoidance ==
    (/\ pc \in {"add", "commit"}
     /\ num <= Cardinality(ALL_MESSAGES(catalog))
     /\ TimesLogged(message) > 1)
        => collisions >= MaxAttempts

C2_Witness ==
    /\ pc = "add"
    /\ num <= Cardinality(ALL_MESSAGES(catalog))
    /\ TimesLogged(message) > 1
    /\ collisions >= MaxAttempts

\* the lines int() turns into an integer of at least 1
ValidLines == {ToString(n) : n \in 1..MaxNum}

\* C3: while main waits for input every line read so far was rejected and
\* nothing has been mutated, logged or passed to git; main leaves the prompt
\* only on a line that is an integer of at least 1, and num is that integer;
\* the session then makes num commit calls and one push call.
C3_InputValidation ==
    /\ pc = "input" =>
        /\ line \notin ValidLines
        /\ files = GoodFiles
        /\ changelog = initLog
        /\ muts = 0 /\ stageCalls = 0 /\ commitCalls = 0 /\ pushCalls = 0
    /\ pc # "input" =>
        /\ line \in ValidLines
        /\ line = ToString(num)
        /\ num >= 1
    /\ pc = "done" => muts = num /\ commitCalls = num /\ pushCalls = 1

C3_Witness == pc = "input" /\ line = ToString(0) /\ num = 0

\* C4: a mutator call that returns on a well-formed document leaves a valid
\* JSON document with the same leaves of which exactly one has a new value,
\* and leaves the other files alone.
C4_ExactlyOneLeaf ==
    (pc = "call" /\ modifier # "" /\ fault = "none") =>
        LET f == FileOf(modifier)
        IN  (IsMap(before[f]) /\ ValidJson(before[f])) =>
                /\ ValidJson(files[f])
                /\ Leaves(files[f]) = Leaves(before[f])
                /\ Cardinality(ChangedLeaves(before[f], files[f])) = 1
                /\ \A g \in FileNames \ {f} : files[g] = before[g]

\* C5: every commit of the session holds the changes of one iteration only.
C5_OneIterationPerCommit ==
    \A k \in DOMAIN commits : Cardinality(commits[k].iters) = 1

\* C6: whatever git add, git commit and git push return, the session is not
\* aborted and repeats no call: it makes one stage and one commit call per
\* iteration and one push call, and the push changes nothing but the report,
\* which follows its return code.
C6_FailuresNonFatal ==
    /\ [](/\ pc # "aborted"
          /\ stageCalls \in {i - 1, i} /\ commitCalls \in {i - 1, i}
          /\ stageCalls >= 0 /\ commitCalls >= 0
          /\ pc = "done" =>
                /\ stageCalls = num /\ commitCalls = num /\ pushCalls = 1
                /\ report = (IF result = 0 THEN "success" ELSE "failure"))
    /\ [][pc = "push" =>
            /\ pc' = "done"
            /\ <<commits, staged, unstaged, changelog, files>>' =
                   <<commits, staged, unstaged, changelog, files>>]_vars

C6_Witness ==
    /\ pc = "done"
    /\ num > 1
    /\ Len(commits) < num
    /\ result # 0
    /\ report = "failure"

\* C7: a fault raised by the mutator of iteration i ends the session there:
\* the fault leaves files, changelog and git state as they were, iteration i
\* gets no changelog line, no stage and no commit call, nothing runs after
\* it and nothing is pushed; and no iteration goes on after a fault.
C7_FaultAborts ==
    /\ [](/\ (fault # "none") <=> (pc = "aborted")
          /\ pc \in {"log", "add", "commit"} => IsMap(files[FileOf(modifier)])
          /\ pc = "aborted" =>
                /\ muts = i - 1
                /\ Len(logged) = i - 1
                /\ Len(changelog) = Len(initLog) + i - 1
                /\ stageCalls = i - 1
                /\ commitCalls = i - 1
                /\ pushCalls = 0
                /\ ~ENABLED Next)
    /\ [][pc' = "aborted" =>
            <<commits, staged, unstaged, changelog, files>>' =
                <<commits, staged, unstaged, changelog, files>>]_vars

C7_Witness == pc = "aborted" /\ i > 1 /\ Len(commits) >= 1 /\ Len(logged) = i - 1

\* C8: the changelog is its content at the start of the run followed by one
\* line per _append_log call, in call order, the j-th carrying the message of
\* the j-th call; no step rewrites, reorders or removes a line.
C8_AppendOnly ==
    /\ [](/\ Len(changelog) = Len(initLog) + Len(logged)
          /\ SubSeq(changelog, 1, Len(initLog)) = initLog
          /\ \A j \in DOMAIN logged :
                \E ts \in Clock : changelog[Len(initLog) + j] = LogLine(ts, logged[j]))
    /\ [][/\ Len(changelog') >= Len(changelog)
          /\ SubSeq(changelog', 1, Len(changelog)) = changelog]_vars

C8_Witness == Len(logged) > 1 /\ initLog # <<>> /\ Len(changelog) = Len(initLog) + Len(logged)

\* C9: an iteration redraws at most 20 times, and once a valid count has been
\* entered the session reaches Done after the push, also when the count
\* exceeds the number of distinct catalog messages.
C9_Terminates ==
    /\ [](attempts <= MaxAttempts)
    /\ (pc # "input") ~> (pc = "done" /\ pushCalls = 1)

C9_Witness ==
    /\ pc = "done"
    /\ pushCalls = 1
    /\ num > Cardinality(ALL_MESSAGES(catalog))

\* C10: every category of the catalog has a mutator of its own in MODIFIERS,
\* the message in hand always belongs to the category in hand, and the
\* mutator dispatched is the one MODIFIERS gives for that category.
C10_DispatchMatchesMessage ==
    /\ DOMAIN COMMIT_MESSAGES \subseteq DOMAIN MODIFIERS
    /\ pc \in PostSelection \cup {"retry"} =>
        /\ category \in DOMAIN catalog
        /\ message \in Range(COMMIT_MESSAGES[category])
    /\ pc \in PostSelection =>
        /\ category \in DOMAIN MODIFIERS
        /\ modifier = MODIFIERS[category]
    /\ pc \in {"add", "commit"} => logged[Len(logged)] = message

C10_Witness ==
    /\ pc = "log"
    /\ i > 1
    /\ modifier # Dispatch(CHOOSE c \in DOMAIN catalog : logged[1] \in Range(catalog[c]))
====
